---- MODULE Spec2Model ----
(***************************************************************************)
(* Investment ledger of the investment backend: InvestmentController's     *)
(* createInvestment and cancelInvestment handlers against the Project,     *)
(* Investment and Payment collections.  A handler is split at its awaits:  *)
(* each action is one store operation together with the synchronous code   *)
(* that follows it up to the next await (Node runs that code without       *)
(* interleaving).  Documents are saved the way Mongoose saves them: only   *)
(* the paths that changed since the document was read are written, after   *)
(* the schema validators have run.                                         *)
(***************************************************************************)
EXTENDS Integers, Sequences, FiniteSets, TLC

(* ------------------------------ bounds --------------------------------- *)
MaxInvestments == 2
MaxAmount == 2
MaxNow == 48
TickHours == 24

(* ------------------------- program constants --------------------------- *)
CancelWindowHours == 24

Requests == {1, 2}
Users == {"u1", "u2", "adm"}
Investors == {"u1", "u2"}
ProjectIds == {1}
RequestedProjectIds == {1, 2}
Amounts == 0 .. MaxAmount
MinChoices == {1, 2}
TargetChoices == {3}
RoiChoices == {100}
Methods == {"stripe", "cash"}
Reasons == {"none", "changed my mind"}

ProjectStatusEnum == {"active", "completed", "closed"}
InvestmentStatusEnum == {"pending", "completed", "failed", "refunded"}
PaymentMethodEnum == {"stripe", "paypal", "bank_transfer", "wallet"}
PaymentStatusEnum == {"pending", "succeeded", "failed", "refunded"}

VARIABLES projects, investments, payments, now, reqs, decs, out, search

vars == <<projects, investments, payments, now, reqs, decs, out, search>>

(* ------------------------------ values --------------------------------- *)
NullProject ==
  [status |-> "none", minInvestment |-> 0, targetAmount |-> 0,
   fundedAmount |-> 0, totalInvestors |-> 0, roiPercent |-> 0]

NullInvestment ==
  [userId |-> "none", projectId |-> 0, amount |-> 0, status |-> "none",
   investmentDate |-> 0, expectedReturn |-> 0, refundReason |-> "none"]

NoResp == [code |-> 0, err |-> "none", max |-> 0]

Err(code, tag) == [code |-> code, err |-> tag, max |-> 0]

Ok(code) == [code |-> code, err |-> "none", max |-> 0]

IdleReq ==
  [pc |-> "idle", kind |-> "none", caller |-> "none", projectId |-> 0,
   amount |-> 0, method |-> "none", invId |-> 0, reason |-> "none",
   proj0 |-> NullProject, inv |-> NullInvestment, wrote |-> {}]

NoOut ==
  [kind |-> "none", code |-> 0, err |-> "none", max |-> 0,
   wrote |-> {}, invId |-> 0, mail |-> "none", note |-> "none"]

Role(u) == IF u = "adm" THEN "admin" ELSE "user"

Max(a, b) == IF a >= b THEN a ELSE b

(* --------------------------- schema validators ------------------------- *)
ProjectValidNoFundedMin(doc) ==
  /\ doc.minInvestment >= 0
  /\ doc.roiPercent >= 0 /\ doc.roiPercent <= 1000
  /\ doc.targetAmount >= 0
  /\ doc.totalInvestors >= 0
  /\ doc.status \in ProjectStatusEnum

ProjectValid(doc) ==
  /\ doc.minInvestment >= 0
  /\ doc.roiPercent >= 0 /\ doc.roiPercent <= 1000
  /\ doc.targetAmount >= 0
  /\ doc.fundedAmount >= 0
  /\ doc.totalInvestors >= 0
  /\ doc.status \in ProjectStatusEnum

InvestmentValid(doc, method) ==
  /\ doc.userId # "none"
  /\ doc.projectId # 0
  /\ doc.amount >= 0
  /\ doc.status \in InvestmentStatusEnum
  /\ method \in PaymentMethodEnum
  /\ doc.expectedReturn >= 0

PaymentValid(doc) ==
  /\ doc.userId # "none"
  /\ doc.subscriptionId # "none"
  /\ doc.transactionId # 0
  /\ doc.amount >= 0
  /\ doc.status \in PaymentStatusEnum
  /\ doc.method # "none"

(* Mongoose document.save(): $set of the paths whose value differs from    *)
(* the value the document was loaded with.                                 *)
SaveModified(stored, orig, local) ==
  [f \in DOMAIN stored |-> IF local[f] # orig[f] THEN local[f] ELSE stored[f]]

(* ------------------------------ responses ------------------------------ *)
Respond(p, r, resp) ==
  /\ reqs' = [reqs EXCEPT ![p] = IdleReq]
  /\ out' = [kind |-> r.kind, code |-> resp.code,
             err |-> resp.err, max |-> resp.max, wrote |-> r.wrote,
             invId |-> IF resp.err = "none" THEN r.invId ELSE 0,
             mail |-> "none", note |-> "none"]

(* ------------------------------- dispatch ------------------------------ *)
(* EmailService.send...: try { send; return true } catch { return false }. *)
SendEmail(transportFails) == IF transportFails THEN "failed" ELSE "sent"

(* NotificationService.createNotification: the created document, or null   *)
(* when Notification.create throws.                                        *)
CreateNotification(storeFails) ==
  IF storeFails THEN "failed" ELSE "created"

(* The user the email and the notification of a request go to: the handler *)
(* loads User.findById(userId) with userId = req.user._id and passes the   *)
(* same userId to createNotification.                                      *)
DispatchUser(r) == r.caller

AfterDispatchAwaited(resp, mail, note) ==
  IF mail = "failed" \/ note = "failed"
    THEN Err(500, "DispatchFailed") ELSE resp

(* Neither promise is awaited and each carries a .catch that only logs:    *)
(* the handler goes on to the response it was about to send.               *)
AfterDispatch(resp, mail, note) == resp

RespondAfterDispatch(p, r, resp, mail, note) ==
  /\ reqs' = [reqs EXCEPT ![p] = IdleReq]
  /\ out' = [kind |-> r.kind, code |-> AfterDispatch(resp, mail, note).code,
             err |-> AfterDispatch(resp, mail, note).err,
             max |-> resp.max, wrote |-> r.wrote,
             invId |-> IF AfterDispatch(resp, mail, note).err = "none"
                         THEN r.invId ELSE 0,
             mail |-> mail, note |-> note]

Quiet == \A p \in Requests : reqs[p].pc = "idle"

FreeSlot(p) ==
  /\ reqs[p].pc = "idle"
  /\ \A q \in Requests : q < p => reqs[q].pc # "idle"

(* --------------------------- createInvestment -------------------------- *)
RequiredMissing(projectId, amount, method) ==
  projectId = 0 \/ amount = 0 \/ method = "none"

InvestPreconditionNoHeadroom(project, found, amount) ==
  IF ~found THEN Err(404, "ProjectNotFound")
  ELSE IF project.status # "active" THEN Err(400, "NotActive")
  ELSE IF amount < project.minInvestment THEN Err(400, "BelowMinimum")
  ELSE IF project.fundedAmount >= project.targetAmount
    THEN Err(400, "FullyFunded")
  ELSE NoResp

InvestPrecondition(project, found, amount) ==
  IF ~found THEN Err(404, "ProjectNotFound")
  ELSE IF project.status # "active" THEN Err(400, "NotActive")
  ELSE IF amount < project.minInvestment THEN Err(400, "BelowMinimum")
  ELSE IF project.fundedAmount >= project.targetAmount
    THEN Err(400, "FullyFunded")
  ELSE IF project.fundedAmount + amount > project.targetAmount
    THEN [code |-> 400, err |-> "ExceedsTarget",
          max |-> project.targetAmount - project.fundedAmount]
  ELSE NoResp

ExpectedReturnNoPrincipal(amount, roiPercent) ==
  (amount * roiPercent) \div 100

ExpectedReturn(amount, roiPercent) == amount + (amount * roiPercent) \div 100

NewInvestment(userId, projectId, amount, expectedReturn, date) ==
  [userId |-> userId, projectId |-> projectId, amount |-> amount,
   status |-> "completed", investmentDate |-> date,
   expectedReturn |-> expectedReturn, refundReason |-> "none"]

FundProjectNeverCompletes(project, amount) ==
  [project EXCEPT
     !.fundedAmount = project.fundedAmount + amount,
     !.totalInvestors = project.totalInvestors + 1]

FundProjectNoInvestor(project, amount) ==
  LET funded == project.fundedAmount + amount
  IN [project EXCEPT
        !.fundedAmount = funded,
        !.status = IF funded >= project.targetAmount
                     THEN "completed" ELSE project.status]

FundProjectNoAmount(project, amount) ==
  [project EXCEPT
     !.totalInvestors = project.totalInvestors + 1,
     !.status = IF project.fundedAmount >= project.targetAmount
                  THEN "completed" ELSE project.status]

FundProject(project, amount) ==
  LET funded == project.fundedAmount + amount
  IN [project EXCEPT
        !.fundedAmount = funded,
        !.totalInvestors = project.totalInvestors + 1,
        !.status = IF funded >= project.targetAmount
                     THEN "completed" ELSE project.status]

NewPayment(userId, amount, method, invId) ==
  [userId |-> userId, subscriptionId |-> "none", amount |-> amount,
   currency |-> "USD", status |-> "completed", method |-> method,
   transactionId |-> invId]

Creating ==
  Cardinality({p \in Requests :
                 reqs[p].pc \in {"findProject", "createInvestment"}})

InvestBegin(p, caller, projectId, amount, method) ==
  /\ FreeSlot(p)
  /\ Len(investments) + Creating < MaxInvestments
  /\ LET r == [IdleReq EXCEPT !.kind = "invest", !.caller = caller,
                 !.projectId = projectId, !.amount = amount,
                 !.method = method]
     IN IF RequiredMissing(projectId, amount, method)
          THEN Respond(p, r, Err(400, "Required"))
          ELSE /\ reqs' = [reqs EXCEPT ![p] = [r EXCEPT !.pc = "findProject"]]
               /\ UNCHANGED out
  /\ UNCHANGED <<search, projects, investments, payments, now, decs>>

InvestFindProject(p) ==
  /\ reqs[p].pc = "findProject"
  /\ LET r == reqs[p]
         found == r.projectId \in DOMAIN projects
         project == IF found THEN projects[r.projectId] ELSE NullProject
         pre == InvestPrecondition(project, found, r.amount)
     IN IF pre # NoResp
          THEN Respond(p, r, pre)
          ELSE /\ reqs' = [reqs EXCEPT ![p] =
                    [r EXCEPT !.pc = "createInvestment", !.proj0 = project]]
               /\ UNCHANGED out
  /\ UNCHANGED <<search, projects, investments, payments, now, decs>>

InvestCreate(p) ==
  /\ reqs[p].pc = "createInvestment"
  /\ LET r == reqs[p]
         doc == NewInvestment(r.caller, r.projectId, r.amount,
                  ExpectedReturn(r.amount, r.proj0.roiPercent), now)
     IN IF InvestmentValid(doc, r.method)
          THEN /\ investments' = Append(investments, doc)
               /\ decs' = Append(decs, 0)
               /\ reqs' = [reqs EXCEPT ![p] =
                    [r EXCEPT !.pc = "saveProject",
                              !.invId = Len(investments) + 1,
                              !.wrote = r.wrote \cup {"investment"}]]
               /\ UNCHANGED out
          ELSE /\ Respond(p, r, Err(400, "ValidationError"))
               /\ UNCHANGED <<investments, decs>>
  /\ UNCHANGED <<search, projects, payments, now>>

InvestSaveProject(p) ==
  /\ reqs[p].pc = "saveProject"
  /\ LET r == reqs[p]
         local == FundProject(r.proj0, r.amount)
     IN IF ProjectValid(local)
          THEN /\ projects' = [projects EXCEPT ![r.projectId] =
                    SaveModified(projects[r.projectId], r.proj0, local)]
               /\ reqs' = [reqs EXCEPT ![p] =
                    [r EXCEPT !.pc = "createPayment",
                              !.wrote = r.wrote \cup {"project"}]]
               /\ UNCHANGED out
          ELSE /\ Respond(p, r, Err(400, "ValidationError"))
               /\ UNCHANGED projects
  /\ UNCHANGED <<search, investments, payments, now, decs>>

InvestCreatePayment(p, transportFails, storeFails) ==
  /\ reqs[p].pc = "createPayment"
  /\ LET r == reqs[p]
         doc == NewPayment(r.caller, r.amount, r.method, r.invId)
     IN IF PaymentValid(doc)
          THEN /\ payments' = Append(payments, doc)
               /\ RespondAfterDispatch(p,
                    [r EXCEPT !.wrote = r.wrote \cup {"payment"}],
                    Ok(201), SendEmail(transportFails),
                    CreateNotification(storeFails))
          ELSE /\ Respond(p, r, Err(400, "ValidationError"))
               /\ UNCHANGED payments
  /\ UNCHANGED <<search, projects, investments, now, decs>>

(* --------------------------- cancelInvestment -------------------------- *)
CancelPreconditionNoRefundCheck(inv, found, caller, isAdmin, t) ==
  IF ~found THEN Err(404, "InvestmentNotFound")
  ELSE IF inv.userId # caller /\ ~isAdmin THEN Err(403, "Forbidden")
  ELSE IF ~isAdmin /\ t - inv.investmentDate > CancelWindowHours
    THEN Err(400, "WindowExpired")
  ELSE NoResp

CancelPreconditionSwapped(inv, found, caller, isAdmin, t) ==
  IF ~found THEN Err(404, "InvestmentNotFound")
  ELSE IF inv.status = "refunded" THEN Err(400, "AlreadyRefunded")
  ELSE IF inv.userId # caller /\ ~isAdmin THEN Err(403, "Forbidden")
  ELSE IF ~isAdmin /\ t - inv.investmentDate > CancelWindowHours
    THEN Err(400, "WindowExpired")
  ELSE NoResp

CancelPreconditionWindowForAll(inv, found, caller, isAdmin, t) ==
  IF ~found THEN Err(404, "InvestmentNotFound")
  ELSE IF inv.userId # caller /\ ~isAdmin THEN Err(403, "Forbidden")
  ELSE IF inv.status = "refunded" THEN Err(400, "AlreadyRefunded")
  ELSE IF t - inv.investmentDate > CancelWindowHours
    THEN Err(400, "WindowExpired")
  ELSE NoResp

CancelPrecondition(inv, found, caller, isAdmin, t) ==
  IF ~found THEN Err(404, "InvestmentNotFound")
  ELSE IF inv.userId # caller /\ ~isAdmin THEN Err(403, "Forbidden")
  ELSE IF inv.status = "refunded" THEN Err(400, "AlreadyRefunded")
  ELSE IF ~isAdmin /\ t - inv.investmentDate > CancelWindowHours
    THEN Err(400, "WindowExpired")
  ELSE NoResp

RefundInvestmentClearsAmount(inv, reason) ==
  [inv EXCEPT !.status = "refunded", !.amount = 0,
              !.refundReason = IF reason = "none"
                                 THEN "User requested refund" ELSE reason]

RefundInvestment(inv, reason) ==
  [inv EXCEPT !.status = "refunded",
              !.refundReason = IF reason = "none"
                                 THEN "User requested refund" ELSE reason]

RefundProjectReopensAll(project, inv) ==
  [project EXCEPT
     !.fundedAmount = project.fundedAmount - inv.amount,
     !.totalInvestors =
        Max((IF project.totalInvestors = 0 THEN 1
             ELSE project.totalInvestors) - 1, 0),
     !.status = "active"]

RefundProject(project, inv) ==
  [project EXCEPT
     !.fundedAmount = project.fundedAmount - inv.amount,
     !.totalInvestors =
        Max((IF project.totalInvestors = 0 THEN 1
             ELSE project.totalInvestors) - 1, 0),
     !.status = IF project.status = "completed"
                  THEN "active" ELSE project.status]

CancelBegin(p, caller, invId, reason) ==
  /\ FreeSlot(p)
  /\ reqs' = [reqs EXCEPT ![p] =
       [IdleReq EXCEPT !.pc = "findInvestment", !.kind = "cancel",
                       !.caller = caller, !.invId = invId,
                       !.reason = reason]]
  /\ UNCHANGED <<search, projects, investments, payments, now, decs, out>>

CancelFindInvestmentEager(p) ==
  /\ reqs[p].pc = "findInvestment"
  /\ LET r == reqs[p]
         found == r.invId \in DOMAIN investments
         inv == IF found THEN investments[r.invId] ELSE NullInvestment
         pre == CancelPrecondition(inv, found, r.caller,
                                   Role(r.caller) = "admin", now)
     IN IF pre # NoResp
          THEN /\ Respond(p, r, pre)
               /\ investments' =
                    IF pre.err = "WindowExpired"
                      THEN [investments EXCEPT ![r.invId] =
                              RefundInvestment(inv, r.reason)]
                      ELSE investments
          ELSE /\ reqs' = [reqs EXCEPT ![p] =
                    [r EXCEPT !.pc = "saveInvestment", !.inv = inv]]
               /\ UNCHANGED <<investments, out>>
  /\ UNCHANGED <<search, projects, payments, now, decs>>

CancelFindInvestment(p) ==
  /\ reqs[p].pc = "findInvestment"
  /\ LET r == reqs[p]
         found == r.invId \in DOMAIN investments
         inv == IF found THEN investments[r.invId] ELSE NullInvestment
         pre == CancelPrecondition(inv, found, r.caller,
                                   Role(r.caller) = "admin", now)
     IN IF pre # NoResp
          THEN Respond(p, r, pre)
          ELSE /\ reqs' = [reqs EXCEPT ![p] =
                    [r EXCEPT !.pc = "saveInvestment", !.inv = inv]]
               /\ UNCHANGED out
  /\ UNCHANGED <<search, projects, investments, payments, now, decs>>

CancelSaveInvestment(p) ==
  /\ reqs[p].pc = "saveInvestment"
  /\ LET r == reqs[p]
         local == RefundInvestment(r.inv, r.reason)
     IN /\ investments' = [investments EXCEPT ![r.invId] =
             SaveModified(investments[r.invId], r.inv, local)]
        /\ reqs' = [reqs EXCEPT ![p] =
             [r EXCEPT !.pc = "findProjectForRefund",
                       !.wrote = r.wrote \cup {"investment"}]]
  /\ UNCHANGED <<search, projects, payments, now, decs, out>>

CancelFindProject(p) ==
  /\ reqs[p].pc = "findProjectForRefund"
  /\ LET r == reqs[p]
     IN reqs' = [reqs EXCEPT ![p] =
          [r EXCEPT !.pc = "saveProjectForRefund",
                    !.projectId = r.inv.projectId,
                    !.proj0 = projects[r.inv.projectId]]]
  /\ UNCHANGED <<search, projects, investments, payments, now, decs, out>>

CancelSaveProject(p, transportFails, storeFails) ==
  /\ reqs[p].pc = "saveProjectForRefund"
  /\ LET r == reqs[p]
         local == RefundProject(r.proj0, r.inv)
     IN IF ProjectValid(local)
          THEN /\ projects' = [projects EXCEPT ![r.projectId] =
                    SaveModified(projects[r.projectId], r.proj0, local)]
               /\ decs' = [decs EXCEPT ![r.invId] = @ + 1]
               /\ RespondAfterDispatch(p,
                    [r EXCEPT !.wrote = r.wrote \cup {"project"}],
                    Ok(200), SendEmail(transportFails),
                    CreateNotification(storeFails))
          ELSE /\ Respond(p, r, Err(400, "ValidationError"))
               /\ UNCHANGED <<projects, decs>>
  /\ UNCHANGED <<search, investments, payments, now>>

(* ----------------------------- planFeatures ---------------------------- *)
Features ==
  {"basicFilters", "roiRange", "amountRange", "multipleCategories",
   "advancedSort", "durationFilter"}

SearchFilters(basic, roi, amount, multi, sort, duration) ==
  [basicFilters |-> basic, roiRange |-> roi, amountRange |-> amount,
   multipleCategories |-> multi, advancedSort |-> sort,
   durationFilter |-> duration]

PlanLimits(projectsPerMonth, simulationsPerMonth, savedSearches) ==
  [projectsPerMonth |-> projectsPerMonth,
   simulationsPerMonth |-> simulationsPerMonth,
   savedSearches |-> savedSearches]

PlanFeaturesWithGap ==
  [free |-> [name |-> "Free", limits |-> PlanLimits(10, 5, 0),
      searchFilters |-> SearchFilters(TRUE, FALSE, FALSE, FALSE, FALSE, FALSE)],
   basic |-> [name |-> "Basic", limits |-> PlanLimits(50, 20, 3),
      searchFilters |-> SearchFilters(TRUE, TRUE, FALSE, FALSE, FALSE, FALSE)],
   plus |-> [name |-> "Plus", limits |-> PlanLimits(200, 100, 10),
      searchFilters |-> SearchFilters(TRUE, FALSE, TRUE, TRUE, FALSE, TRUE)],
   premium |-> [name |-> "Premium", limits |-> PlanLimits(-1, -1, -1),
      searchFilters |-> SearchFilters(TRUE, TRUE, TRUE, TRUE, TRUE, TRUE)]]

PLAN_FEATURES ==
  [free |-> [name |-> "Free", limits |-> PlanLimits(10, 5, 0),
      searchFilters |-> SearchFilters(TRUE, FALSE, FALSE, FALSE, FALSE, FALSE)],
   basic |-> [name |-> "Basic", limits |-> PlanLimits(50, 20, 3),
      searchFilters |-> SearchFilters(TRUE, TRUE, FALSE, FALSE, FALSE, FALSE)],
   plus |-> [name |-> "Plus", limits |-> PlanLimits(200, 100, 10),
      searchFilters |-> SearchFilters(TRUE, TRUE, TRUE, TRUE, FALSE, TRUE)],
   premium |-> [name |-> "Premium", limits |-> PlanLimits(-1, -1, -1),
      searchFilters |-> SearchFilters(TRUE, TRUE, TRUE, TRUE, TRUE, TRUE)]]

(* PLAN_FEATURES is an object literal: a key that is not its own property  *)
(* is looked up on Object.prototype.                                       *)
ObjectPrototypeKeys == {"constructor", "toString", "__proto__"}

(* PLAN_FEATURES[planKey] || PLAN_FEATURES.free: the name of the entry, or *)
(* "inherited" for a member of Object.prototype, which is truthy.          *)
Resolve(planKey) ==
  IF planKey \in DOMAIN PLAN_FEATURES THEN planKey
  ELSE IF planKey \in ObjectPrototypeKeys THEN "inherited"
  ELSE "free"

(* plan.searchFilters[feature]: a TypeError when plan has no searchFilters *)
HasFeatureAccess(planKey, feature) ==
  LET plan == Resolve(planKey)
  IN IF plan \in DOMAIN PLAN_FEATURES
       THEN [threw |-> FALSE,
             value |-> PLAN_FEATURES[plan].searchFilters[feature]]
       ELSE [threw |-> TRUE, value |-> FALSE]

GetPlanFeatures(planKey) == Resolve(planKey)

PlanOrder == <<"free", "basic", "plus", "premium">>

GetMinimumPlanForFeature(feature) ==
  LET hits == {i \in DOMAIN PlanOrder :
                 PLAN_FEATURES[PlanOrder[i]].searchFilters[feature]}
  IN IF hits = {} THEN "premium"
     ELSE PlanOrder[CHOOSE i \in hits : \A j \in hits : i <= j]

(* ---------------------------- advancedSearch --------------------------- *)
(* An optional input is the empty set when it is not supplied and the set  *)
(* of its one value when it is.                                            *)
Pages == {1, 2}
PageLimits == {2, 20}
SortKeys == {"createdAt", "roiPercent", "progress"}
SortOrders == {"asc", "desc"}
UserPlanKeys == {"free", "basic", "plus", "premium"}

SearchInputs ==
  [page : Pages, limit : PageLimits,
   category : {{}, {"Energy"}},
   status : {{}, {"active"}},
   search : {{}, {"solar"}},
   categories : {{}, {{}}, {{"Energy", "Technology"}}},
   minROI : {{}, {0}, {20}}, maxROI : {{}, {30}},
   minAmount : {{}, {30}}, maxAmount : {{}, {60}},
   minDuration : {{}, {30}}, maxDuration : {{}, {40}},
   sortBy : SortKeys, sortOrder : SortOrders]

NoInput ==
  [page |-> 1, limit |-> 20, category |-> {}, status |-> {}, search |-> {},
   categories |-> {}, minROI |-> {}, maxROI |-> {}, minAmount |-> {},
   maxAmount |-> {}, minDuration |-> {}, maxDuration |-> {},
   sortBy |-> "createdAt", sortOrder |-> "desc"]

NoFilter ==
  [category |-> {}, status |-> {}, text |-> {}, roiMin |-> {}, roiMax |-> {},
   amountMin |-> {}, amountMax |-> {}, durationMin |-> {},
   durationMax |-> {}]

NoSearch ==
  [op |-> "none", planKey |-> "none", feature |-> "none", input |-> NoInput,
   code |-> 0, names |-> "none", ran |-> FALSE, filter |-> NoFilter,
   sortKey |-> "none", sortDir |-> 0, items |-> <<>>, total |-> 0,
   totalPages |-> 0, entry |-> "none", threw |-> FALSE, granted |-> FALSE,
   minimum |-> "none", caller |-> "none", stats |-> [total |-> 0, count |-> 0]]

Catalogue ==
  <<[title |-> {"solar", "farm"}, category |-> "Energy", roiPercent |-> 18,
     targetAmount |-> 25, fundedAmount |-> 8, minInvestment |-> 1,
     totalInvestors |-> 3, durationMonths |-> 36, status |-> "active",
     isPremium |-> FALSE, createdAt |-> 1],
    [title |-> {"cloud"}, category |-> "Technology", roiPercent |-> 35,
     targetAmount |-> 50, fundedAmount |-> 32, minInvestment |-> 1,
     totalInvestors |-> 5, durationMonths |-> 24, status |-> "active",
     isPremium |-> TRUE, createdAt |-> 2],
    [title |-> {"clinic"}, category |-> "Healthcare", roiPercent |-> 24,
     targetAmount |-> 80, fundedAmount |-> 80, minInvestment |-> 1,
     totalInvestors |-> 9, durationMonths |-> 48, status |-> "completed",
     isPremium |-> FALSE, createdAt |-> 3]>>

Access(planKey, feature) == HasFeatureAccess(planKey, feature).value

GatesTruthy(input) ==
  <<[feature |-> "multipleCategories",
     supplied |-> UNION input.categories # {}],
    [feature |-> "roiRange",
     supplied |-> (input.minROI \cup input.maxROI) \ {0} # {}],
    [feature |-> "amountRange",
     supplied |-> input.minAmount # {} \/ input.maxAmount # {}],
    [feature |-> "durationFilter",
     supplied |-> input.minDuration # {} \/ input.maxDuration # {}],
    [feature |-> "advancedSort",
     supplied |-> input.sortBy # "createdAt" \/ input.sortOrder # "desc"]>>

(* The gated dimensions in the order the handler tests them.               *)
Gates(input) ==
  <<[feature |-> "multipleCategories",
     supplied |-> UNION input.categories # {}],
    [feature |-> "roiRange",
     supplied |-> input.minROI # {} \/ input.maxROI # {}],
    [feature |-> "amountRange",
     supplied |-> input.minAmount # {} \/ input.maxAmount # {}],
    [feature |-> "durationFilter",
     supplied |-> input.minDuration # {} \/ input.maxDuration # {}],
    [feature |-> "advancedSort",
     supplied |-> input.sortBy # "createdAt" \/ input.sortOrder # "desc"]>>

FirstDenied(planKey, input) ==
  LET g == Gates(input)
      bad == {i \in DOMAIN g :
                g[i].supplied /\ ~Access(planKey, g[i].feature)}
  IN IF bad = {} THEN "none"
     ELSE g[CHOOSE i \in bad : \A j \in bad : i <= j].feature

GateMessagePlanPremium ==
  [multipleCategories |-> "premium", roiRange |-> "premium",
   amountRange |-> "premium", durationFilter |-> "premium",
   advancedSort |-> "premium"]

(* The plan each 403 message of the handler names.                         *)
GateMessagePlan ==
  [multipleCategories |-> "plus", roiRange |-> "basic",
   amountRange |-> "plus", durationFilter |-> "plus",
   advancedSort |-> "premium"]

BuildFilter(planKey, input) ==
  LET basic == Access(planKey, "basicFilters")
  IN [category |-> IF UNION input.categories # {}
                     THEN UNION input.categories
                     ELSE IF basic THEN input.category ELSE {},
      status |-> IF basic THEN input.status ELSE {},
      text |-> IF basic THEN input.search ELSE {},
      roiMin |-> input.minROI, roiMax |-> input.maxROI,
      amountMin |-> input.minAmount, amountMax |-> input.maxAmount,
      durationMin |-> input.minDuration,
      durationMax |-> input.maxDuration]

Satisfies(project, filter) ==
  /\ filter.category = {} \/ project.category \in filter.category
  /\ filter.status = {} \/ project.status \in filter.status
  /\ filter.text = {} \/ filter.text \cap project.title # {}
  /\ \A v \in filter.roiMin : project.roiPercent >= v
  /\ \A v \in filter.roiMax : project.roiPercent <= v
  /\ \A v \in filter.amountMin : project.targetAmount >= v
  /\ \A v \in filter.amountMax : project.targetAmount <= v
  /\ \A v \in filter.durationMin : project.durationMonths >= v
  /\ \A v \in filter.durationMax : project.durationMonths <= v

SortObjectProgressDirected(input) ==
  IF input.sortBy = "createdAt" /\ input.sortOrder = "desc"
    THEN [key |-> "createdAt", dir |-> -1]
    ELSE IF input.sortBy = "progress"
    THEN [key |-> "createdAt",
          dir |-> IF input.sortOrder = "asc" THEN 1 ELSE -1]
    ELSE [key |-> input.sortBy,
          dir |-> IF input.sortOrder = "asc" THEN 1 ELSE -1]

SortObject(input) ==
  IF input.sortBy = "createdAt" /\ input.sortOrder = "desc"
    THEN [key |-> "createdAt", dir |-> -1]
    ELSE IF input.sortBy = "progress"
    THEN [key |-> "createdAt", dir |-> -1]
    ELSE [key |-> input.sortBy,
          dir |-> IF input.sortOrder = "asc" THEN 1 ELSE -1]

RECURSIVE Sorted(_, _, _)
Sorted(ids, key, dir) ==
  IF ids = {} THEN <<>>
  ELSE LET first == CHOOSE x \in ids :
                      \A y \in ids :
                        dir * projects[x][key] <= dir * projects[y][key]
       IN <<first>> \o Sorted(ids \ {first}, key, dir)

SkipLimit(seq, skip, limit) ==
  LET last == IF skip + limit <= Len(seq) THEN skip + limit ELSE Len(seq)
  IN IF skip + 1 > last THEN <<>> ELSE SubSeq(seq, skip + 1, last)

Ceil(a, b) == (a + b - 1) \div b

AdvancedSearch(planKey, input) ==
  /\ search.op = "none"
  /\ LET denied == FirstDenied(planKey, input)
         call == [NoSearch EXCEPT !.op = "advancedSearch",
                                  !.planKey = planKey, !.input = input]
         filter == BuildFilter(planKey, input)
         found == {id \in DOMAIN projects : Satisfies(projects[id], filter)}
         sort == SortObject(input)
     IN IF denied # "none"
          THEN search' = [call EXCEPT !.code = 403, !.feature = denied,
                                      !.names = GateMessagePlan[denied]]
          ELSE search' =
                 [call EXCEPT
                    !.code = 200, !.ran = TRUE, !.filter = filter,
                    !.sortKey = sort.key, !.sortDir = sort.dir,
                    !.items = SkipLimit(Sorted(found, sort.key, sort.dir),
                                        (input.page - 1) * input.limit,
                                        input.limit),
                    !.total = Cardinality(found),
                    !.totalPages = Ceil(Cardinality(found), input.limit),
                    !.entry = GetPlanFeatures(planKey)]
  /\ UNCHANGED <<projects, investments, payments, now, reqs, decs, out>>

(* ----------------- getAllProjects / getPremiumProjects ------------------ *)
(* The query of the two listings: category and search are tested for       *)
(* truthiness, so an empty string is no filter; minROI and maxROI are      *)
(* tested against undefined.                                               *)
ListLimits == {2, 10}

ProjectQueries ==
  [page : Pages, limit : ListLimits,
   category : {{}, {""}, {"Energy"}, {"Technology"}},
   status : {{}, {"active"}},
   minROI : {{}, {0}, {20}}, maxROI : {{}, {30}},
   search : {{}, {""}, {"solar"}, {"cloud"}}]

ListFilter(query) ==
  [NoFilter EXCEPT !.category = query.category \ {""},
                   !.status = query.status,
                   !.roiMin = query.minROI, !.roiMax = query.maxROI,
                   !.text = query.search \ {""}]

DefaultListingFilterAll(project) == TRUE

DefaultListingFilter(project) == project.isPremium # TRUE

PremiumListingFilter(project) == project.isPremium = TRUE

ListCall(op, planKey, query) ==
  [NoSearch EXCEPT
     !.op = op, !.planKey = planKey,
     !.input = [NoInput EXCEPT !.page = query.page, !.limit = query.limit,
                               !.category = query.category,
                               !.status = query.status,
                               !.minROI = query.minROI,
                               !.maxROI = query.maxROI,
                               !.search = query.search]]

Listing(call, found, query) ==
  [call EXCEPT
     !.code = 200, !.ran = TRUE, !.filter = ListFilter(query),
     !.sortKey = "createdAt", !.sortDir = -1,
     !.items = SkipLimit(Sorted(found, "createdAt", -1),
                         (query.page - 1) * query.limit, query.limit),
     !.total = Cardinality(found),
     !.totalPages = Ceil(Cardinality(found), query.limit)]

GetAllProjects(query) ==
  /\ search.op = "none"
  /\ LET found == {id \in DOMAIN projects :
                     /\ DefaultListingFilter(projects[id])
                     /\ Satisfies(projects[id], ListFilter(query))}
     IN search' = Listing(ListCall("getAllProjects", "none", query),
                          found, query)
  /\ UNCHANGED <<projects, investments, payments, now, reqs, decs, out>>

(* req.user?.planKey || 'free' of the controllers.                         *)
UserPlan(planKey) == IF planKey \in {"undefined", ""} THEN "free" ELSE planKey

GetPremiumProjects(planKey, query) ==
  /\ search.op = "none"
  /\ LET call == ListCall("getPremiumProjects", planKey, query)
         found == {id \in DOMAIN projects :
                     /\ PremiumListingFilter(projects[id])
                     /\ Satisfies(projects[id], ListFilter(query))}
     IN IF UserPlan(planKey) # "premium"
          THEN search' = [call EXCEPT !.code = 403]
          ELSE search' = Listing(call, found, query)
  /\ UNCHANGED <<projects, investments, payments, now, reqs, decs, out>>

(* ------------------------ plan-feature functions ----------------------- *)
PlanKeyInputs ==
  UserPlanKeys \cup {"enterprise", "", "undefined"} \cup ObjectPrototypeKeys

CallHasFeatureAccess(planKey, feature) ==
  /\ search.op = "none"
  /\ search' = [NoSearch EXCEPT
                  !.op = "hasFeatureAccess", !.planKey = planKey,
                  !.feature = feature,
                  !.threw = HasFeatureAccess(planKey, feature).threw,
                  !.granted = HasFeatureAccess(planKey, feature).value]
  /\ UNCHANGED <<projects, investments, payments, now, reqs, decs, out>>

CallGetPlanFeatures(planKey) ==
  /\ search.op = "none"
  /\ search' = [NoSearch EXCEPT
                  !.op = "getPlanFeatures", !.planKey = planKey,
                  !.entry = GetPlanFeatures(planKey)]
  /\ UNCHANGED <<projects, investments, payments, now, reqs, decs, out>>

CallGetMinimumPlanForFeature(feature) ==
  /\ search.op = "none"
  /\ search' = [NoSearch EXCEPT
                  !.op = "getMinimumPlanForFeature", !.feature = feature,
                  !.minimum = GetMinimumPlanForFeature(feature)]
  /\ UNCHANGED <<projects, investments, payments, now, reqs, decs, out>>

(* ----------------------------- updateProject --------------------------- *)
StatusUpdates == {[status |-> s] : s \in ProjectStatusEnum}

FundedUpdates == {[fundedAmount |-> 0]}

ProjectUpdates == StatusUpdates \cup FundedUpdates

(* Object.assign(project, data) *)
Assign(project, data) ==
  [f \in DOMAIN project |->
     IF f \in DOMAIN data THEN data[f] ELSE project[f]]

UpdateOut(resp, wrote) ==
  [kind |-> "update", code |-> resp.code, err |-> resp.err, max |-> 0,
   wrote |-> wrote, invId |-> 0, mail |-> "none", note |-> "none"]

(* PUT /projects/:id, run while no other request is in flight, so that the *)
(* findById and the save() of the handler are one step.                    *)
UpdateProject(caller, id, data) ==
  /\ Quiet
  /\ LET found == id \in DOMAIN projects
         project == IF found THEN projects[id] ELSE NullProject
         local == Assign(project, data)
     IN IF Role(caller) # "admin"
          THEN out' = UpdateOut(Err(403, "Forbidden"), {}) /\ UNCHANGED projects
          ELSE IF ~found
          THEN out' = UpdateOut(Err(404, "ProjectNotFound"), {})
               /\ UNCHANGED projects
          ELSE IF ~ProjectValid(local)
          THEN out' = UpdateOut(Err(400, "ValidationError"), {})
               /\ UNCHANGED projects
          ELSE /\ projects' = [projects EXCEPT ![id] = local]
               /\ out' = UpdateOut(Ok(200), {"project"})
  /\ UNCHANGED <<search, investments, payments, now, reqs, decs>>

(* -------------------------------- clock -------------------------------- *)
Tick ==
  /\ now + TickHours <= MaxNow
  /\ now' = now + TickHours
  /\ UNCHANGED <<search, projects, investments, payments, reqs, decs, out>>

(* ---------------------------- specifications --------------------------- *)
InitProject(m, t, roi, s) ==
  [status |-> s, minInvestment |-> m, targetAmount |-> t,
   fundedAmount |-> 0, totalInvestors |-> 0, roiPercent |-> roi]

InitRest ==
  /\ investments = <<>>
  /\ payments = <<>>
  /\ now = 0
  /\ reqs = [p \in Requests |-> IdleReq]
  /\ decs = <<>>
  /\ out = NoOut
  /\ search = NoSearch

Init ==
  /\ \E m \in MinChoices, t \in TargetChoices, roi \in RoiChoices,
        s \in {"active", "closed"} :
       projects = [id \in ProjectIds |-> InitProject(m, t, roi, s)]
  /\ InitRest

StartInvest ==
  \E p \in Requests, u \in Investors, id \in RequestedProjectIds,
     a \in Amounts, m \in Methods :
    InvestBegin(p, u, id, a, m)

StartCancel ==
  \E p \in Requests, u \in Users, i \in 1 .. MaxInvestments, why \in Reasons :
    CancelBegin(p, u, i, why)

FindProjectStep == \E p \in Requests : InvestFindProject(p)

CreateInvestmentStep == \E p \in Requests : InvestCreate(p)

SaveProjectStep == \E p \in Requests : InvestSaveProject(p)

(* The mail transport and the notification store are up.                   *)
CreatePaymentStep == \E p \in Requests : InvestCreatePayment(p, FALSE, FALSE)

FindInvestmentStep == \E p \in Requests : CancelFindInvestment(p)

SaveInvestmentStep == \E p \in Requests : CancelSaveInvestment(p)

FindProjectForRefundStep == \E p \in Requests : CancelFindProject(p)

SaveProjectForRefundStep ==
  \E p \in Requests : CancelSaveProject(p, FALSE, FALSE)

(* Requests run one at a time: a request is accepted only when no other    *)
(* request is in flight.  Full input sets and the clock.                   *)
SeqStartInvest == Quiet /\ StartInvest

SeqStartCancel == Quiet /\ StartCancel

SeqNext ==
  \/ SeqStartInvest
  \/ SeqStartCancel
  \/ FindProjectStep
  \/ CreateInvestmentStep
  \/ SaveProjectStep
  \/ CreatePaymentStep
  \/ FindInvestmentStep
  \/ SaveInvestmentStep
  \/ FindProjectForRefundStep
  \/ SaveProjectForRefundStep
  \/ Tick

SeqSpec == Init /\ [][SeqNext]_vars

(* Requests overlap: every await of one request may interleave with the    *)
(* steps of the other.  Well-formed requests on one active project within  *)
(* one clock tick.                                                         *)
RaceInit ==
  /\ \E t \in TargetChoices, roi \in RoiChoices :
       projects = [id \in ProjectIds |-> InitProject(1, t, roi, "active")]
  /\ InitRest

RaceStartInvest ==
  \E p \in Requests, a \in 1 .. MaxAmount :
    InvestBegin(p, "u1", 1, a, "stripe")

RaceStartCancel ==
  \E p \in Requests, u \in {"u1", "adm"}, i \in 1 .. MaxInvestments :
    CancelBegin(p, u, i, "none")

Next ==
  \/ RaceStartInvest
  \/ RaceStartCancel
  \/ FindProjectStep
  \/ CreateInvestmentStep
  \/ SaveProjectStep
  \/ CreatePaymentStep
  \/ FindInvestmentStep
  \/ SaveInvestmentStep
  \/ FindProjectForRefundStep
  \/ SaveProjectForRefundStep

Spec == RaceInit /\ [][Next]_vars

(* Invest requests run alone; a cancel request may overlap only cancel      *)
(* requests for the same investment.                                       *)
LoneStartInvest == Quiet /\ RaceStartInvest

SameStartCancel ==
  \E p \in Requests, u \in {"u1", "adm"}, i \in 1 .. MaxInvestments :
    /\ \A q \in Requests :
         reqs[q].pc # "idle" => reqs[q].kind = "cancel" /\ reqs[q].invId = i
    /\ CancelBegin(p, u, i, "none")

CancelRaceNext ==
  \/ LoneStartInvest
  \/ SameStartCancel
  \/ FindProjectStep
  \/ CreateInvestmentStep
  \/ SaveProjectStep
  \/ CreatePaymentStep
  \/ FindInvestmentStep
  \/ SaveInvestmentStep
  \/ FindProjectForRefundStep
  \/ SaveProjectForRefundStep

CancelRaceSpec == RaceInit /\ [][CancelRaceNext]_vars

(* Requests run one at a time on one active project within one clock tick, *)
(* and an administrator may set the project's status between requests.     *)
AdminStartInvest == Quiet /\ RaceStartInvest

AdminStartCancel ==
  /\ Quiet
  /\ \E p \in Requests, u \in {"u1", "adm"}, i \in 1 .. MaxInvestments,
        why \in Reasons :
       CancelBegin(p, u, i, why)

AdminUpdateProject ==
  \E u \in {"u1", "adm"}, id \in ProjectIds, data \in ProjectUpdates :
    UpdateProject(u, id, data)

AdminNext ==
  \/ AdminStartInvest
  \/ AdminStartCancel
  \/ AdminUpdateProject
  \/ FindProjectStep
  \/ CreateInvestmentStep
  \/ SaveProjectStep
  \/ CreatePaymentStep
  \/ FindInvestmentStep
  \/ SaveInvestmentStep
  \/ FindProjectForRefundStep
  \/ SaveProjectForRefundStep

AdminSpec == RaceInit /\ [][AdminNext]_vars

(* The investments collection already holds one document that            *)
(* createInvestment did not write: the schema's status enum admits pending *)
(* and failed, which the handlers never assign.  Requests run one at a     *)
(* time.                                                                   *)
SchemaInit ==
  /\ \E t \in TargetChoices, roi \in RoiChoices :
       projects = [id \in ProjectIds |-> InitProject(1, t, roi, "active")]
  /\ \E st \in InvestmentStatusEnum \ {"completed", "refunded"} :
       investments =
         <<[NewInvestment("u1", 1, 1, ExpectedReturn(1, 100), 0)
              EXCEPT !.status = st]>>
  /\ decs = <<0>>
  /\ payments = <<>>
  /\ now = 0
  /\ reqs = [p \in Requests |-> IdleReq]
  /\ out = NoOut
  /\ search = NoSearch

SchemaStartInvest == Quiet /\ RaceStartInvest

SchemaStartCancel == Quiet /\ RaceStartCancel

SchemaNext ==
  \/ SchemaStartInvest
  \/ SchemaStartCancel
  \/ FindProjectStep
  \/ CreateInvestmentStep
  \/ SaveProjectStep
  \/ CreatePaymentStep
  \/ FindInvestmentStep
  \/ SaveInvestmentStep
  \/ FindProjectForRefundStep
  \/ SaveProjectForRefundStep

SchemaSpec == SchemaInit /\ [][SchemaNext]_vars

(* Requests run one at a time on one active project; the mail transport    *)
(* and the notification store may fail on any dispatch.                    *)
DispatchStartInvest == Quiet /\ RaceStartInvest

DispatchStartCancel == Quiet /\ RaceStartCancel

FlakyCreatePaymentStep ==
  \E p \in Requests, transportFails \in BOOLEAN, storeFails \in BOOLEAN :
    InvestCreatePayment(p, transportFails, storeFails)

FlakySaveProjectForRefundStep ==
  \E p \in Requests, transportFails \in BOOLEAN, storeFails \in BOOLEAN :
    CancelSaveProject(p, transportFails, storeFails)

DispatchNext ==
  \/ DispatchStartInvest
  \/ DispatchStartCancel
  \/ FindProjectStep
  \/ CreateInvestmentStep
  \/ SaveProjectStep
  \/ FlakyCreatePaymentStep
  \/ FindInvestmentStep
  \/ SaveInvestmentStep
  \/ FindProjectForRefundStep
  \/ FlakySaveProjectForRefundStep

DispatchSpec == RaceInit /\ [][DispatchNext]_vars

(* One call of the search endpoint or of a plan-feature function on a      *)
(* catalogue of three projects.                                            *)
SearchInit ==
  /\ projects = Catalogue
  /\ InitRest

RunAdvancedSearch ==
  /\ search.op = "none"
  /\ \E planKey \in UserPlanKeys, input \in SearchInputs :
       AdvancedSearch(planKey, input)

RunHasFeatureAccess ==
  \E planKey \in PlanKeyInputs, feature \in Features :
    CallHasFeatureAccess(planKey, feature)

RunGetPlanFeatures ==
  \E planKey \in PlanKeyInputs : CallGetPlanFeatures(planKey)

RunGetMinimumPlanForFeature ==
  \E feature \in Features : CallGetMinimumPlanForFeature(feature)

RunGetAllProjects ==
  /\ search.op = "none"
  /\ \E query \in ProjectQueries : GetAllProjects(query)

RunGetPremiumProjects ==
  /\ search.op = "none"
  /\ \E planKey \in UserPlanKeys \cup {"undefined"}, query \in ProjectQueries :
       GetPremiumProjects(planKey, query)

SearchNext ==
  \/ RunAdvancedSearch
  \/ RunGetAllProjects
  \/ RunGetPremiumProjects
  \/ RunHasFeatureAccess
  \/ RunGetPlanFeatures
  \/ RunGetMinimumPlanForFeature

SearchSpec == SearchInit /\ [][SearchNext]_vars

(* --------------------------- ledger aggregates ------------------------- *)
RECURSIVE CompletedTotalUpTo(_, _)
CompletedTotalUpTo(id, n) ==
  IF n = 0 THEN 0
  ELSE CompletedTotalUpTo(id, n - 1) +
       (IF investments[n].projectId = id /\ investments[n].status = "completed"
          THEN investments[n].amount ELSE 0)

CompletedTotal(id) == CompletedTotalUpTo(id, Len(investments))

CompletedCount(id) ==
  Cardinality({i \in DOMAIN investments :
                 investments[i].projectId = id /\
                 investments[i].status = "completed"})

GetTotalInvestedInProject(projectId) ==
  [total |-> CompletedTotal(projectId), count |-> CompletedCount(projectId)]

(* ------------------------- getProjectInvestments ----------------------- *)
RECURSIVE NewestFirst(_)
NewestFirst(ids) ==
  IF ids = {} THEN <<>>
  ELSE LET newest == CHOOSE x \in ids : \A y \in ids : y <= x
       IN <<newest>> \o NewestFirst(ids \ {newest})

InvestmentPageLimits == {1, 20}

(* GET /investments/project/:projectId behind authGuard, run while no      *)
(* other request is in flight.                                             *)
GetProjectInvestments(caller, projectId, page, limit) ==
  /\ Quiet
  /\ search.op = "none"
  /\ LET call == [NoSearch EXCEPT !.op = "getProjectInvestments",
                                  !.caller = caller]
         ids == {i \in DOMAIN investments :
                   /\ investments[i].projectId = projectId
                   /\ investments[i].status = "completed"}
     IN IF projectId \notin DOMAIN projects
          THEN search' = [call EXCEPT !.code = 404]
          ELSE search' =
                 [call EXCEPT
                    !.code = 200, !.ran = TRUE,
                    !.items = SkipLimit(NewestFirst(ids), (page - 1) * limit,
                                        limit),
                    !.total = Cardinality(ids),
                    !.totalPages = Ceil(Cardinality(ids), limit),
                    !.stats = GetTotalInvestedInProject(projectId)]
  /\ UNCHANGED <<projects, investments, payments, now, reqs, decs, out>>

ReadProjectInvestments ==
  \E u \in Users, id \in RequestedProjectIds, page \in Pages,
     limit \in InvestmentPageLimits :
    GetProjectInvestments(u, id, page, limit)

(* Non-overlapping invest and cancel requests, and one read of a project's *)
(* investments.                                                            *)
ReadNext ==
  \/ AdminStartInvest
  \/ AdminStartCancel
  \/ ReadProjectInvestments
  \/ FindProjectStep
  \/ CreateInvestmentStep
  \/ SaveProjectStep
  \/ CreatePaymentStep
  \/ FindInvestmentStep
  \/ SaveInvestmentStep
  \/ FindProjectForRefundStep
  \/ SaveProjectForRefundStep

ReadSpec == RaceInit /\ [][ReadNext]_vars

(* C1: when requests do not overlap, after every finished request the      *)
(* project's fundedAmount equals the sum of the amounts of its investments *)
(* whose status is completed.                                              *)
C1_FundedEqualsCompleted ==
  Quiet => \A id \in DOMAIN projects :
             projects[id].fundedAmount = CompletedTotal(id)

C1_Witness ==
  /\ Quiet
  /\ projects[1].fundedAmount > 0
  /\ \E i, j \in DOMAIN investments :
       investments[i].status = "completed" /\ investments[j].status = "refunded"

(* C2: in every reachable state, under every interleaving of overlapping   *)
(* invest and cancel requests, the stored fundedAmount never exceeds the   *)
(* project's targetAmount.                                                 *)
C2_FundedWithinTarget ==
  \A id \in DOMAIN projects :
    projects[id].fundedAmount <= projects[id].targetAmount

C2_Witness ==
  /\ \A p \in Requests :
       reqs[p].kind = "invest" /\ reqs[p].pc \in {"saveProject", "createPayment"}
  /\ reqs[1].amount + reqs[2].amount > projects[1].targetAmount
  /\ CompletedTotal(1) > projects[1].targetAmount

(* C3: every finished request has written both the Investment and the      *)
(* Project counters, or neither.                                           *)
C3_AtomicUnit ==
  out.kind # "none" =>
    (("investment" \in out.wrote) <=> ("project" \in out.wrote))

(* ----------------------------- request steps --------------------------- *)
Responds(p) == reqs[p].pc # "idle" /\ reqs'[p].pc = "idle"

ChecksProject(p) == reqs[p].pc = "findProject" /\ reqs'[p].pc # "findProject"

ChecksInvestment(p) ==
  reqs[p].pc = "findInvestment" /\ reqs'[p].pc # "findInvestment"

StoreUnchanged == UNCHANGED <<projects, investments, payments>>

Headroom(project) == project.targetAmount - project.fundedAmount

Elapsed(i) == now - investments[i].investmentDate

(* C4: an invest request that passed the five preconditions ends with 201  *)
(* and the created investment; an invest request that ends with an error   *)
(* has written no Investment and no Project counter.                       *)
C4_InvestOutcome ==
  [][\A p \in Requests :
       /\ ( /\ reqs[p].kind = "invest"
            /\ reqs[p].pc \in {"createInvestment", "saveProject", "createPayment"}
            /\ reqs[p].method \in PaymentMethodEnum
            /\ Responds(p) )
          => /\ out'.code = 201
             /\ out'.invId \in DOMAIN investments'
       /\ (reqs[p].kind = "invest" /\ Responds(p) /\ out'.code # 201)
          => out'.wrote = {}]_vars

(* C5 as stated: every cancel of an investment whose status is refunded    *)
(* fails with 400 'Investment is already refunded' and leaves the project  *)
(* unchanged, and no investment decrements its project more than once.     *)
C5_Original ==
  [][/\ \A p \in Requests :
          ( /\ ChecksInvestment(p)
            /\ reqs[p].invId \in DOMAIN investments
            /\ investments[reqs[p].invId].status = "refunded" )
          => /\ Responds(p)
             /\ out'.code = 400 /\ out'.err = "AlreadyRefunded"
             /\ UNCHANGED projects
     /\ \A i \in DOMAIN decs' : decs'[i] <= 1]_vars

(* C5 amended: a cancel of a refunded investment by its owner or an admin  *)
(* fails with 400 'Investment is already refunded', by any other caller    *)
(* with 403; either way the project is unchanged, and no investment        *)
(* decrements its project more than once.                                  *)
C5_RefundedStaysRefunded ==
  [][/\ \A p \in Requests :
          ( /\ ChecksInvestment(p)
            /\ reqs[p].invId \in DOMAIN investments
            /\ investments[reqs[p].invId].status = "refunded" )
          => /\ Responds(p)
             /\ IF \/ investments[reqs[p].invId].userId = reqs[p].caller
                   \/ Role(reqs[p].caller) = "admin"
                  THEN out'.code = 400 /\ out'.err = "AlreadyRefunded"
                  ELSE out'.code = 403 /\ out'.err = "Forbidden"
             /\ UNCHANGED projects
     /\ \A i \in DOMAIN decs' : decs'[i] <= 1]_vars

C5_Witness ==
  /\ Quiet
  /\ out.kind = "cancel" /\ out.err = "AlreadyRefunded"
  /\ \E i \in DOMAIN investments :
       investments[i].status = "refunded" /\ decs[i] = 1

(* C6: when cancel requests for one investment overlap, the project's      *)
(* fundedAmount is reduced by the investment's amount once and its         *)
(* totalInvestors by one: after the requests the counters equal the total  *)
(* and the number of the completed investments.                            *)
C6_RefundOnce ==
  Quiet => \A id \in DOMAIN projects :
             /\ projects[id].fundedAmount = CompletedTotal(id)
             /\ projects[id].totalInvestors = CompletedCount(id)

(* C7: on an active project with headroom h > 0 and minInvestment <= h, an *)
(* invest of exactly h succeeds (201) and leaves the project completed; an *)
(* invest of h + 1 fails with 400 naming h as the maximum and changes      *)
(* nothing.                                                                *)
C7_Boundary ==
  [][\A p \in Requests :
       /\ ( /\ ChecksProject(p)
            /\ reqs[p].projectId \in DOMAIN projects
            /\ projects[reqs[p].projectId].status = "active"
            /\ Headroom(projects[reqs[p].projectId]) > 0
            /\ projects[reqs[p].projectId].minInvestment
                 <= Headroom(projects[reqs[p].projectId]) )
          => LET h == Headroom(projects[reqs[p].projectId])
             IN /\ reqs[p].amount = h + 1
                   => /\ Responds(p)
                      /\ out'.code = 400 /\ out'.err = "ExceedsTarget"
                      /\ out'.max = h
                      /\ StoreUnchanged
                /\ reqs[p].amount = h => reqs'[p].pc = "createInvestment"
       /\ ( /\ reqs[p].kind = "invest"
            /\ reqs[p].pc \in {"createInvestment", "saveProject", "createPayment"}
            /\ reqs[p].method \in PaymentMethodEnum
            /\ reqs[p].amount = Headroom(reqs[p].proj0)
            /\ Responds(p) )
          => /\ out'.code = 201
             /\ projects'[reqs[p].projectId].status = "completed"]_vars

(* The preconditions in the order the specification lists them.            *)
InvestViolated(project, found, amount) ==
  {k \in 1 .. 5 :
     \/ k = 1 /\ ~found
     \/ k = 2 /\ found /\ project.status # "active"
     \/ k = 3 /\ found /\ amount < project.minInvestment
     \/ k = 4 /\ found /\ project.fundedAmount >= project.targetAmount
     \/ k = 5 /\ found /\ project.fundedAmount + amount > project.targetAmount}

InvestErrOf(k) ==
  CASE k = 1 -> <<404, "ProjectNotFound">>
    [] k = 2 -> <<400, "NotActive">>
    [] k = 3 -> <<400, "BelowMinimum">>
    [] k = 4 -> <<400, "FullyFunded">>
    [] k = 5 -> <<400, "ExceedsTarget">>

CancelViolated(inv, found, caller, t) ==
  {k \in 1 .. 4 :
     \/ k = 1 /\ ~found
     \/ k = 2 /\ found /\ inv.userId # caller /\ Role(caller) # "admin"
     \/ k = 3 /\ found /\ inv.status = "refunded"
     \/ k = 4 /\ found /\ Role(caller) # "admin"
              /\ t - inv.investmentDate > CancelWindowHours}

CancelErrOf(k) ==
  CASE k = 1 -> <<404, "InvestmentNotFound">>
    [] k = 2 -> <<403, "Forbidden">>
    [] k = 3 -> <<400, "AlreadyRefunded">>
    [] k = 4 -> <<400, "WindowExpired">>

First(S) == CHOOSE k \in S : \A j \in S : k <= j

C9_Original ==
  [][\A p \in Requests :
       ( /\ ChecksInvestment(p)
         /\ reqs[p].invId \in DOMAIN investments )
       => LET i == reqs[p].invId
              owner == investments[i].userId = reqs[p].caller
              admin == Role(reqs[p].caller) = "admin"
          IN /\ (owner /\ ~admin /\ Elapsed(i) > CancelWindowHours)
                => /\ Responds(p)
                   /\ out'.code = 400 /\ out'.err = "WindowExpired"
                   /\ StoreUnchanged
             /\ (owner /\ ~admin /\ reqs'[p].pc = "saveInvestment")
                => Elapsed(i) <= CancelWindowHours
             /\ admin => ~(Responds(p) /\ out'.err = "WindowExpired")]_vars

(* C9 amended: a cancel by the non-admin owner more than 24 hours after    *)
(* investmentDate fails with 400 and changes nothing: 'already refunded'   *)
(* when the investment is refunded, 'within 24 hours' otherwise; it        *)
(* proceeds only within 24 hours; an admin is never rejected for the time. *)
C9_CancelWindow ==
  [][\A p \in Requests :
       ( /\ ChecksInvestment(p)
         /\ reqs[p].invId \in DOMAIN investments )
       => LET i == reqs[p].invId
              owner == investments[i].userId = reqs[p].caller
              admin == Role(reqs[p].caller) = "admin"
          IN /\ (owner /\ ~admin /\ Elapsed(i) > CancelWindowHours)
                => /\ Responds(p)
                   /\ out'.code = 400
                   /\ out'.err = IF investments[i].status = "refunded"
                                   THEN "AlreadyRefunded" ELSE "WindowExpired"
                   /\ StoreUnchanged
             /\ (owner /\ ~admin /\ reqs'[p].pc = "saveInvestment")
                => Elapsed(i) <= CancelWindowHours
             /\ admin => ~(Responds(p) /\ out'.err = "WindowExpired")]_vars

C9_Witness ==
  /\ Quiet
  /\ out.kind = "cancel" /\ out.err = "WindowExpired"
  /\ \E i \in DOMAIN investments :
       /\ investments[i].status = "completed"
       /\ Elapsed(i) > CancelWindowHours

PreconditionErrors ==
  {"Required", "ProjectNotFound", "NotActive", "BelowMinimum", "FullyFunded",
   "ExceedsTarget", "InvestmentNotFound", "Forbidden", "AlreadyRefunded",
   "WindowExpired"}

(* C10: a request rejected by one of its preconditions leaves every        *)
(* Project and Investment record unchanged, creates no record and has      *)
(* written nothing.                                                        *)
C10_RejectionChangesNothing ==
  [][( /\ out'.err \in PreconditionErrors
       /\ \/ out' # out
          \/ \E p \in Requests : Responds(p) )
     => /\ StoreUnchanged
        /\ UNCHANGED decs
        /\ out'.wrote = {}]_vars

C10_Witness ==
  /\ out.kind = "cancel" /\ out.err = "Forbidden"
  /\ \E i \in DOMAIN investments : investments[i].status = "completed"
  /\ projects[1].fundedAmount > 0

(* C11: an invest that passed the preconditions creates exactly one        *)
(* Investment with status completed, the given amount and expectedReturn   *)
(* = amount + amount * roiPercent / 100, then raises the project's         *)
(* fundedAmount by the amount and totalInvestors by 1, and sets the        *)
(* project's status to completed exactly when the new fundedAmount has     *)
(* reached targetAmount; no other step of the invest writes either store.  *)
C11_InvestEffects ==
  [][\A p \in Requests :
       reqs[p].kind = "invest" =>
         LET r == reqs[p]
             before == projects[r.projectId]
             after == projects'[r.projectId]
         IN /\ (r.pc = "createInvestment" /\ reqs'[p].pc = "saveProject")
                 => /\ Len(investments') = Len(investments) + 1
                    /\ SubSeq(investments', 1, Len(investments)) = investments
                    /\ LET inv == investments'[Len(investments')]
                       IN /\ inv.userId = r.caller
                          /\ inv.projectId = r.projectId
                          /\ inv.amount = r.amount
                          /\ inv.status = "completed"
                          /\ inv.expectedReturn * 100 =
                               r.amount * 100 + r.amount * before.roiPercent
                    /\ UNCHANGED projects
            /\ (r.pc = "saveProject" /\ reqs'[p].pc = "createPayment")
                 => /\ after.fundedAmount = before.fundedAmount + r.amount
                    /\ after.totalInvestors = before.totalInvestors + 1
                    /\ (after.status = "completed")
                         <=> (after.fundedAmount >= after.targetAmount)
                    /\ after.status \in {"active", "completed"}
                    /\ after.targetAmount = before.targetAmount
                    /\ after.minInvestment = before.minInvestment
                    /\ after.roiPercent = before.roiPercent
                    /\ UNCHANGED investments
            /\ (r.pc \in {"findProject", "createPayment"})
                 => UNCHANGED <<projects, investments>>]_vars

C11_Witness ==
  \E p \in Requests :
    /\ reqs[p].kind = "invest"
    /\ reqs[p].pc = "createPayment"
    /\ reqs[p].invId \in DOMAIN investments
    /\ investments[reqs[p].invId].expectedReturn = 2 * reqs[p].amount
    /\ projects[reqs[p].projectId].fundedAmount =
         projects[reqs[p].projectId].targetAmount
    /\ projects[reqs[p].projectId].status = "completed"
    /\ projects[reqs[p].projectId].totalInvestors = 2

(* C13: in every step, also of overlapping cancel requests for one         *)
(* investment, an Investment's amount, userId and projectId stay what they *)
(* were at creation, no Investment is deleted, and an Investment whose     *)
(* status is refunded keeps that status.                                   *)
C13_InvestmentFrame ==
  [][/\ Len(investments') >= Len(investments)
     /\ \A i \in DOMAIN investments :
          /\ investments'[i].amount = investments[i].amount
          /\ investments'[i].userId = investments[i].userId
          /\ investments'[i].projectId = investments[i].projectId
          /\ investments[i].status = "refunded"
               => investments'[i].status = "refunded"]_vars

C13_Witness ==
  /\ out.kind = "cancel"
  /\ out.err = "AlreadyRefunded"
  /\ \E i, j \in DOMAIN investments :
       /\ investments[i].status = "refunded"
       /\ investments[i].amount > 0
       /\ decs[i] = 2
       /\ investments[j].status = "completed"

(* C16: when requests do not overlap, after every finished request the     *)
(* project's totalInvestors equals the number of distinct userIds among    *)
(* its investments whose status is completed, also when one user has       *)
(* invested in the project twice.                                          *)
DistinctInvestors(id) ==
  {investments[i].userId :
     i \in {j \in DOMAIN investments :
              investments[j].projectId = id /\
              investments[j].status = "completed"}}

C16_DistinctInvestors ==
  Quiet => \A id \in DOMAIN projects :
             projects[id].totalInvestors = Cardinality(DistinctInvestors(id))

(* C12: a cancel that passed the preconditions sets the investment's       *)
(* status to refunded with refundReason the supplied reason, or 'User      *)
(* requested refund' when none is supplied, and touches nothing else of    *)
(* it; when it ends with 200 it has lowered the project's fundedAmount by  *)
(* the investment's amount and totalInvestors by 1, floored at 0, and has  *)
(* changed the project's status only from completed to active: an active   *)
(* project stays active and a closed project stays closed.                 *)
C12_CancelEffects ==
  [][\A p \in Requests :
       reqs[p].kind = "cancel" =>
         LET r == reqs[p]
         IN /\ (r.pc = "saveInvestment" /\ reqs'[p].pc = "findProjectForRefund")
                 => /\ investments' = [investments EXCEPT ![r.invId] =
                         [@ EXCEPT !.status = "refunded",
                                   !.refundReason =
                                      IF r.reason = "none"
                                        THEN "User requested refund"
                                        ELSE r.reason]]
                    /\ UNCHANGED projects
            /\ (r.pc = "saveProjectForRefund" /\ Responds(p) /\ out'.code = 200)
                 => LET inv == investments[r.invId]
                        before == projects[inv.projectId]
                    IN /\ projects' = [projects EXCEPT ![inv.projectId] =
                            [@ EXCEPT
                               !.fundedAmount = before.fundedAmount - inv.amount,
                               !.totalInvestors =
                                  Max(before.totalInvestors - 1, 0),
                               !.status = IF before.status = "completed"
                                            THEN "active" ELSE before.status]]
                       /\ UNCHANGED investments]_vars

C12_Witness ==
  /\ out.kind = "cancel"
  /\ out.code = 200
  /\ projects[1].status = "closed"
  /\ projects[1].fundedAmount = 1
  /\ \E i, j \in DOMAIN investments :
       /\ investments[i].status = "refunded"
       /\ investments[i].refundReason = "changed my mind"
       /\ investments[j].status = "completed"

C15_DispatchFailureSwallowed ==
  [][\A p \in Requests :
       (Responds(p) /\ (out'.mail = "failed" \/ out'.note = "failed"))
         => LET r == reqs[p]
            IN /\ out'.code = (IF r.kind = "invest" THEN 201 ELSE 200)
               /\ out'.err = "none"
               /\ UNCHANGED investments
               /\ {"investment", "project"} \subseteq out'.wrote
               /\ r.kind = "cancel"
                    => /\ investments[r.invId].status = "refunded"
                       /\ projects'[r.projectId].fundedAmount =
                            projects[r.projectId].fundedAmount - r.inv.amount
                       /\ projects'[r.projectId].totalInvestors =
                            Max(projects[r.projectId].totalInvestors - 1, 0)
               /\ r.kind = "invest"
                    => /\ investments[r.invId].status = "completed"
                       /\ UNCHANGED projects]_vars

C15_Witness ==
  /\ out.kind = "cancel"
  /\ out.code = 200
  /\ out.mail = "failed"
  /\ out.note = "failed"
  /\ out.invId \in DOMAIN investments
  /\ investments[out.invId].status = "refunded"
  /\ projects[1].fundedAmount = CompletedTotal(1)

(* C17: a search that supplies a gated dimension (a non-empty categories   *)
(* list, minROI or maxROI, minAmount or maxAmount, minDuration or          *)
(* maxDuration, a sortBy or sortOrder other than the default) whose        *)
(* capability the caller's plan lacks ends with 403 and no project list;   *)
(* a search that ends with 200 ran the query with every supplied gated     *)
(* filter applied.                                                         *)
Lacks(planKey, feature) == ~PLAN_FEATURES[planKey].searchFilters[feature]

C17_GatedDimensionDenied ==
  search.op = "advancedSearch" =>
    LET q == search.input
        plan == search.planKey
        denied ==
          \/ UNION q.categories # {} /\ Lacks(plan, "multipleCategories")
          \/ (q.minROI # {} \/ q.maxROI # {}) /\ Lacks(plan, "roiRange")
          \/ (q.minAmount # {} \/ q.maxAmount # {})
               /\ Lacks(plan, "amountRange")
          \/ (q.minDuration # {} \/ q.maxDuration # {})
               /\ Lacks(plan, "durationFilter")
          \/ (q.sortBy # "createdAt" \/ q.sortOrder # "desc")
               /\ Lacks(plan, "advancedSort")
    IN /\ denied => /\ search.code = 403
                    /\ ~search.ran
                    /\ search.items = <<>>
       /\ search.code = 200
            => /\ search.ran
               /\ \A n \in DOMAIN search.items :
                    LET project == projects[search.items[n]]
                    IN /\ UNION q.categories # {}
                            => project.category \in UNION q.categories
                       /\ \A v \in q.minROI : project.roiPercent >= v
                       /\ \A v \in q.maxROI : project.roiPercent <= v
                       /\ \A v \in q.minAmount : project.targetAmount >= v
                       /\ \A v \in q.maxAmount : project.targetAmount <= v
                       /\ \A v \in q.minDuration : project.durationMonths >= v
                       /\ \A v \in q.maxDuration : project.durationMonths <= v

C17_Witness ==
  /\ search.op = "advancedSearch"
  /\ search.planKey = "free"
  /\ search.input.minROI = {0}
  /\ search.input.maxROI = {}
  /\ search.input.categories = {}
  /\ search.input.sortBy = "createdAt"
  /\ search.input.sortOrder = "desc"
  /\ search.code = 403
  /\ ~search.ran

(* C18: the plan named in the 403 error that advancedSearch raises for a   *)
(* gated capability is the plan getMinimumPlanForFeature returns for that  *)
(* capability.                                                             *)
C18_ErrorNamesMinimumPlan ==
  (search.op = "advancedSearch" /\ search.code = 403)
    => /\ search.feature \in Features
       /\ search.names = GetMinimumPlanForFeature(search.feature)

C18_Witness ==
  /\ search.op = "advancedSearch"
  /\ search.code = 403
  /\ search.planKey = "free"
  /\ search.input.minROI = {20}
  /\ search.feature = "roiRange"
  /\ search.names = "basic"

(* C19: for every capability and every plan key other than free, basic,    *)
(* plus and premium, a missing key included, hasFeatureAccess answers what *)
(* it answers for free and getPlanFeatures returns the free entry, and     *)
(* neither raises an error.                                                *)
C19_UnknownPlanIsFree ==
  (search.op \in {"hasFeatureAccess", "getPlanFeatures"} /\
   search.planKey \notin {"free", "basic", "plus", "premium"})
    => /\ ~search.threw
       /\ search.op = "hasFeatureAccess"
            => search.granted = PLAN_FEATURES.free.searchFilters[search.feature]
       /\ search.op = "getPlanFeatures" => search.entry = "free"

(* C20: getMinimumPlanForFeature returns the lowest of the tiers free <    *)
(* basic < plus < premium that grants the capability, premium when none    *)
(* does, and hasFeatureAccess is true for exactly the tiers at or above    *)
(* that minimum.                                                           *)
TierRank == [free |-> 1, basic |-> 2, plus |-> 3, premium |-> 4]

C20_MinimumPlanMonotone ==
  /\ search.op = "getMinimumPlanForFeature"
       => LET granting == {t \in DOMAIN TierRank :
                             PLAN_FEATURES[t].searchFilters[search.feature]}
          IN /\ search.minimum \in DOMAIN TierRank
             /\ granting = {} => search.minimum = "premium"
             /\ granting # {}
                  => /\ search.minimum \in granting
                     /\ \A t \in granting :
                          TierRank[search.minimum] <= TierRank[t]
  /\ (search.op = "hasFeatureAccess" /\ search.planKey \in DOMAIN TierRank)
       => /\ ~search.threw
          /\ search.granted <=>
               TierRank[search.planKey] >=
                 TierRank[GetMinimumPlanForFeature(search.feature)]

C20_Witness ==
  /\ search.op = "hasFeatureAccess"
  /\ search.planKey = "plus"
  /\ search.feature = "roiRange"
  /\ search.granted
  /\ GetMinimumPlanForFeature("roiRange") = "basic"
  /\ GetMinimumPlanForFeature("advancedSort") = "premium"

(* C21: a caller without advancedSort gets a result only for the default   *)
(* (createdAt, desc) and 403 for every other sortBy / sortOrder, createdAt *)
(* asc included; for a caller with advancedSort, sortBy = progress orders  *)
(* the result by createdAt descending whatever the sortOrder, and every    *)
(* other sortBy orders it by that field in the requested direction.        *)
C21_SortGate ==
  search.op = "advancedSearch" =>
    LET q == search.input
        default == q.sortBy = "createdAt" /\ q.sortOrder = "desc"
        lacks == Lacks(search.planKey, "advancedSort")
        at(n) == projects[search.items[n]]
    IN /\ (lacks /\ ~default) => search.code = 403 /\ ~search.ran
       /\ (lacks /\ search.code = 200) => default
       /\ search.code = 200
            => \A m, n \in DOMAIN search.items :
                 m < n =>
                   IF q.sortBy = "progress"
                     THEN at(m).createdAt >= at(n).createdAt
                     ELSE IF q.sortOrder = "asc"
                     THEN at(m)[q.sortBy] <= at(n)[q.sortBy]
                     ELSE at(m)[q.sortBy] >= at(n)[q.sortBy]

C21_Witness ==
  /\ search.op = "advancedSearch"
  /\ search.planKey = "premium"
  /\ search.input.sortBy = "progress"
  /\ search.input.sortOrder = "asc"
  /\ search.code = 200
  /\ search.items = <<3, 2, 1>>

C21_Denied ==
  /\ search.op = "advancedSearch"
  /\ search.planKey = "plus"
  /\ search.input.sortBy = "createdAt"
  /\ search.input.sortOrder = "asc"
  /\ search.code = 403
  /\ search.feature = "advancedSort"

(* C22: the default listing never returns a project with isPremium = TRUE; *)
(* the premium listing returns only projects with isPremium = TRUE, and    *)
(* answers 403 without running the query for every caller whose planKey is *)
(* not premium, a missing planKey included.                                *)
C22_ListingsSeparatePremium ==
  /\ search.op = "getAllProjects"
       => /\ \A n \in DOMAIN search.items :
               projects[search.items[n]].isPremium # TRUE
          /\ search.total
               = Cardinality({id \in DOMAIN projects :
                                /\ projects[id].isPremium # TRUE
                                /\ Satisfies(projects[id], search.filter)})
  /\ search.op = "getPremiumProjects"
       => /\ \A n \in DOMAIN search.items :
               projects[search.items[n]].isPremium = TRUE
          /\ search.planKey # "premium"
               => search.code = 403 /\ ~search.ran /\ search.items = <<>>
          /\ search.planKey = "premium" => search.code = 200

C22_Witness ==
  /\ search.op = "getAllProjects"
  /\ search.input.category = {}
  /\ search.input.minROI = {}
  /\ search.input.limit = 10
  /\ search.items = <<3, 1>>
  /\ search.total = 2

C22_PremiumListed ==
  /\ search.op = "getPremiumProjects"
  /\ search.planKey = "premium"
  /\ search.items = <<2>>

C22_PremiumDenied ==
  /\ search.op = "getPremiumProjects"
  /\ search.planKey = "undefined"
  /\ search.code = 403

(* C30: no listing or search operation returns a project with isPremium =  *)
(* TRUE to a caller whose plan is not premium: the items and the total     *)
(* count of advancedSearch, getAllProjects and getPremiumProjects are      *)
(* those of the store without its isPremium projects.                      *)
C30_NoPremiumToNonPremium ==
  (/\ search.op \in {"advancedSearch", "getAllProjects",
                     "getPremiumProjects"}
   /\ search.planKey # "premium")
    => /\ \A n \in DOMAIN search.items :
            projects[search.items[n]].isPremium # TRUE
       /\ search.ran
            => search.total
                 = Cardinality({id \in DOMAIN projects :
                                  /\ projects[id].isPremium # TRUE
                                  /\ Satisfies(projects[id], search.filter)})

(* C23: GET /investments/project/:projectId returns investment data only   *)
(* to callers whose role is admin; an authenticated caller who is not an   *)
(* admin is always rejected with an authorization error.                   *)
C23_ProjectInvestmentsAdminOnly ==
  (search.op = "getProjectInvestments" /\ Role(search.caller) # "admin")
    => search.code = 403 /\ ~search.ran /\ search.items = <<>>

(* C24: no operation other than invest and cancel changes an existing      *)
(* project's fundedAmount, totalInvestors or status; the administrative    *)
(* updateProject leaves the three fields as they were.                     *)
C24_OnlyInvestAndCancelMoveCounters ==
  [][(UNCHANGED reqs)
       => \A id \in DOMAIN projects :
            /\ projects'[id].fundedAmount = projects[id].fundedAmount
            /\ projects'[id].totalInvestors = projects[id].totalInvestors
            /\ projects'[id].status = projects[id].status]_vars

(* C25: under every interleaving of overlapping invest and cancel requests *)
(* on one project, once all requests have finished the project's           *)
(* fundedAmount equals the sum of the amounts of its completed             *)
(* investments: no request's counter update is lost or overwritten.        *)
C25_NoLostUpdate ==
  (Quiet /\ out.kind # "none")
    => projects[1].fundedAmount = CompletedTotal(1)

(* C26: a project with targetAmount > 0 that was created active with       *)
(* fundedAmount 0 and is changed only by non-overlapping invest and cancel *)
(* requests has status completed exactly when fundedAmount = targetAmount  *)
(* and has fundedAmount < targetAmount while it is active; so no invest is *)
(* rejected as 'fully funded' and no project with headroom is left         *)
(* completed.                                                              *)
C26_StatusTracksFunding ==
  \A id \in DOMAIN projects :
    (projects[id].targetAmount > 0 /\ projects[id].status # "closed")
      => /\ projects[id].status = "completed"
              <=> projects[id].fundedAmount = projects[id].targetAmount
         /\ projects[id].status = "active"
              => projects[id].fundedAmount < projects[id].targetAmount
         /\ out.err # "FullyFunded"

C26_Witness ==
  /\ Quiet
  /\ out.kind = "cancel" /\ out.code = 200
  /\ projects[1].status = "active"
  /\ projects[1].fundedAmount = 1
  /\ Len(investments) = 2
  /\ investments[1].status = "completed" /\ investments[1].amount = 1
  /\ investments[2].status = "refunded" /\ investments[2].amount = 2

C26_Completed ==
  /\ Quiet
  /\ projects[1].status = "completed"
  /\ projects[1].fundedAmount = projects[1].targetAmount
  /\ out.kind = "invest"
  /\ CompletedCount(1) = 2

(* C27: after any sequence of non-overlapping invest and cancel requests   *)
(* on a project that started with totalInvestors 0 and no investments, the *)
(* project's totalInvestors equals the number of its investments with      *)
(* status completed, counted per investment and not per user, which is the *)
(* count reported by getTotalInvestedInProject.                            *)
C27_InvestorsCountCompleted ==
  Quiet => \A id \in DOMAIN projects :
             /\ projects[id].totalInvestors
                  = Cardinality({i \in DOMAIN investments :
                                   /\ investments[i].projectId = id
                                   /\ investments[i].status = "completed"})
             /\ projects[id].totalInvestors
                  = GetTotalInvestedInProject(id).count

C27_Witness ==
  /\ Quiet
  /\ out.kind = "invest"
  /\ projects[1].totalInvestors = 2
  /\ GetTotalInvestedInProject(1).count = 2
  /\ investments[1].userId = investments[2].userId

C27_AfterCancel ==
  /\ Quiet
  /\ out.kind = "cancel" /\ out.code = 200
  /\ projects[1].totalInvestors = 1
  /\ \E i \in DOMAIN investments : investments[i].status = "refunded"

(* C28: in every reachable state, under overlapping cancel requests and    *)
(* cancels of investments whose project counters were already reduced      *)
(* included, the stored fundedAmount and totalInvestors of a project are   *)
(* never negative.                                                         *)
C28_CountersNeverNegative ==
  \A id \in DOMAIN projects :
    projects[id].fundedAmount >= 0 /\ projects[id].totalInvestors >= 0

C28_Witness ==
  /\ out.kind = "cancel"
  /\ out.err = "ValidationError"
  /\ "project" \notin out.wrote
  /\ Len(investments) = 1
  /\ investments[1].status = "refunded"
  /\ decs[1] = 1
  /\ projects[1].fundedAmount = 0
  /\ projects[1].totalInvestors = 0

(* C29: the cancellation email and the in-app notification of a successful *)
(* cancel are addressed to the user who owns the cancelled investment,     *)
(* also when the cancel is performed by an admin who is not the owner.     *)
C29_CancelNoticeToOwner ==
  [][\A p \in Requests :
       (/\ reqs[p].kind = "cancel"
        /\ Responds(p)
        /\ out'.code = 200
        /\ out'.mail # "none" /\ out'.note # "none")
         => DispatchUser(reqs[p]) = investments[reqs[p].invId].userId]_vars

TypeOK ==
  /\ now \in 0 .. MaxNow + TickHours
  /\ Len(investments) <= MaxInvestments
  /\ Len(decs) = Len(investments)
====
